---- MODULE Spec2Model ----
(***************************************************************************)
(* The matchup ledger of 3cb-tools: the class Tools3CB                    *)
(* (src/tools_3cb/tools_3cb.py) and the script it grew out of             *)
(* (src/tools_3cb.py), whose definitions are named script_...             *)
(*                                                                         *)
(* A deck identifier is the string of its card names joined by " | ".  It  *)
(* is modelled as the tuple of its cards, cards being small integers, so   *)
(* that deck.split(' | ') is the tuple itself and Python's string order on *)
(* identifiers (card names of one character) is the lexicographic order on *)
(* tuples.  A result is a mean of at most MaxRows outcomes in {1, 0, -1};  *)
(* it is kept as the integer Scale * mean, which is exact.                 *)
(***************************************************************************)
EXTENDS Integers, Sequences, FiniteSets, TLC

VARIABLES
  program,    \* which of the two programs owns the database: "class" or "script"
  banlist,    \* self.banlist: the lines of banlist.txt
  files,      \* database/<deck>.csv: deck -> the rows <<opponent, result>> of the file
  decksTxt,   \* database/decks.txt: its lines
  decklist,   \* self.decklist
  cache,      \* self.cache: deck -> DataFrame
  last        \* the last call: its name, its arguments of interest, what it returned or raised

vars == <<program, banlist, files, decksTxt, decklist, cache, last>>

(***************************************************************************)
(* Bounds and universes                                                    *)
(***************************************************************************)
\* Rows of one ingested workbook.
MaxRows == 2


DeckX == <<1, 2, 3>>
DeckY == <<1, 2, 4>>
DeckZ == <<1, 5, 4>>
DeckW == <<1, 1, 5>>

Outcomes == {"Win", "Tie", "Loss"}

RECURSIVE Gcd(_, _)
Gcd(a, b) == IF b = 0 THEN a ELSE Gcd(b, a % b)

RECURSIVE LcmUpTo(_)
LcmUpTo(n) == IF n <= 1 THEN 1 ELSE LET l == LcmUpTo(n - 1) IN (l * n) \div Gcd(l, n)

\* Results are stored as Scale * (the real result): every mean of 1..MaxRows
\* outcomes is then an integer.
Scale == LcmUpTo(MaxRows)

(***************************************************************************)
(* Python and pandas helpers                                               *)
(***************************************************************************)
\* str < str on deck identifiers.
DeckLess(a, b) ==
  \E i \in 1..Len(a) :
    /\ i <= Len(b)
    /\ \A j \in 1..(i - 1) : a[j] = b[j]
    /\ a[i] < b[i]

\* sorted(set(...)): the elements of S in increasing order.
RECURSIVE Sorted(_)
Sorted(S) ==
  IF S = {} THEN <<>>
  ELSE LET m == CHOOSE x \in S : \A y \in S : x = y \/ DeckLess(x, y)
       IN <<m>> \o Sorted(S \ {m})

Range(s) == {s[i] : i \in 1..Len(s)}

\* pd.DataFrame(columns=["Result"]): an index and one column, both empty.
EmptyFrame == [index |-> <<>>, Result |-> <<>>]

\* pd.read_csv(path, index_col=0): the first field of each line is the index.
read_csv(rows) ==
  [index  |-> [i \in 1..Len(rows) |-> rows[i][1]],
   Result |-> [i \in 1..Len(rows) |-> rows[i][2]]]

\* deck_db.to_csv(path): one line per row, the index first.
to_csv(deck_db) ==
  [i \in 1..Len(deck_db.index) |-> <<deck_db.index[i], deck_db.Result[i]>>]

\* opponent in deck_db.index
InIndex(deck_db, opponent) == opponent \in Range(deck_db.index)

\* deck_db.loc[opponent, "Result"]
Loc(deck_db, opponent) ==
  deck_db.Result[CHOOSE i \in 1..Len(deck_db.index) : deck_db.index[i] = opponent]

\* deck_db.loc[opponent, "Result"] = new_result, for an opponent not in the
\* index: the frame is enlarged in place by one row at the end.
SetLoc(deck_db, opponent, new_result) ==
  [index  |-> Append(deck_db.index, opponent),
   Result |-> Append(deck_db.Result, new_result)]

(***************************************************************************)
(* Tools3CB.load_deck / save_deck                                          *)
(***************************************************************************)
\* The DataFrame load_deck returns in machine state m.
load_deck(m, deck) ==
  IF deck \in DOMAIN m.cache THEN m.cache[deck]
  ELSE IF deck \in DOMAIN m.files THEN read_csv(m.files[deck])
  ELSE EmptyFrame

\* self.cache after load_deck(deck).
cache_after_load(m, deck) ==
  IF deck \in DOMAIN m.cache THEN m.cache
  ELSE (deck :> load_deck(m, deck)) @@ m.cache

\* A registry written without the set(): appended, never de-duplicated.
register_appending(lst, deck) == Append(lst, deck)

\* self.decklist.append(deck); self.decklist = sorted(set(self.decklist))
register(lst, deck) == Sorted(Range(Append(lst, deck)))

\* A save that writes the record and leaves the registry alone.
save_deck_unregistered(m, deck_db, deck) ==
  [m EXCEPT !.files = (deck :> to_csv(deck_db)) @@ m.files]

save_deck(m, deck_db, deck) ==
  LET newlist == register(m.decklist, deck)
  IN [m EXCEPT !.files    = (deck :> to_csv(deck_db)) @@ m.files,
               !.decklist = newlist,
               !.decksTxt = newlist]

(***************************************************************************)
(* Tools3CB.ingest                                                         *)
(***************************************************************************)
\* df.replace({"Result": {"Win": 1, "Tie": 0, "Loss": -1}})
ResultValue(outcome) ==
  CASE outcome = "Win"  -> 1
    [] outcome = "Tie"  -> 0
    [] outcome = "Loss" -> -1

RECURSIVE SumResults(_)
SumResults(rows) ==
  IF rows = <<>> THEN 0 ELSE ResultValue(Head(rows)[3]) + SumResults(Tail(rows))

\* The rows of one (Decklist, Opponent Decklist) group.
GroupRows(rows, key) == SelectSeq(rows, LAMBDA r : <<r[1], r[2]>> = key)

\* A merge that keeps the first observation of a group instead of averaging.
MeanFirst(group) == ResultValue(Head(group)[3]) * Scale

\* .mean() of a group, times Scale.
Mean(group) == (SumResults(group) * Scale) \div Len(group)

\* df.groupby(["Decklist", "Opponent Decklist"]).mean(): key -> mean.
GroupMean(rows) ==
  [key \in {<<r[1], r[2]>> : r \in Range(rows)} |-> Mean(GroupRows(rows, key))]

\* df.index.levels[0]: the decks of the grouped frame, sorted.
Levels0(df) == Sorted({key[1] : key \in DOMAIN df})

\* df.loc[deck].index: the opponents of deck in the grouped frame, sorted.
OpponentsOf(df, deck) == Sorted({key[2] : key \in {k \in DOMAIN df : k[1] = deck}})

\* A comparison that never reports a conflict.
DiffersNever(new_result, old_result) == FALSE

\* new_result != old_result
Differs(new_result, old_result) == new_result # old_result

\* The loop over df.loc[deck].index: the frame as it is when the loop ends or
\* raises, and the opponent it raised on.
RECURSIVE update_results(_, _, _, _)
update_results(deck_db, deck, opponents, df) ==
  IF opponents = <<>> THEN [db |-> deck_db, raised |-> FALSE, opp |-> <<>>]
  ELSE LET opponent   == Head(opponents)
           new_result == df[<<deck, opponent>>]
       IN IF InIndex(deck_db, opponent)
          THEN IF Differs(new_result, Loc(deck_db, opponent))
               THEN [db |-> deck_db, raised |-> TRUE, opp |-> opponent]
               ELSE update_results(deck_db, deck, Tail(opponents), df)
          ELSE update_results(SetLoc(deck_db, opponent, new_result), deck,
                              Tail(opponents), df)

\* deck_db is the object self.cache[deck] holds: a row added to it is added
\* to the cached frame, saved or not.
alias_cache(m, deck, deck_db) == [m EXCEPT !.cache = (deck :> deck_db) @@ m.cache]

RECURSIVE process_decks(_, _, _)

\* A loop that saves the frame before it raises.
after_update_saving(m1, deck, r, rest, df) ==
  IF r.raised
  THEN [m |-> save_deck(alias_cache(m1, deck, r.db), r.db, deck), raised |-> TRUE,
        deck |-> deck, opp |-> r.opp]
  ELSE process_decks(save_deck(alias_cache(m1, deck, r.db), r.db, deck), rest, df)

\* One pass of the loop over df.index.levels[0] once the inner loop has run
\* with outcome r: raise, or save_deck and go on with the decks left.
after_update(m1, deck, r, rest, df) ==
  IF r.raised
  THEN [m |-> alias_cache(m1, deck, r.db), raised |-> TRUE, deck |-> deck, opp |-> r.opp]
  ELSE process_decks(save_deck(alias_cache(m1, deck, r.db), r.db, deck), rest, df)

\* The loop over df.index.levels[0].
process_decks(m, decks, df) ==
  IF decks = <<>> THEN [m |-> m, raised |-> FALSE, deck |-> <<>>, opp |-> <<>>]
  ELSE after_update([m EXCEPT !.cache = cache_after_load(m, Head(decks))],
                    Head(decks),
                    update_results(load_deck(m, Head(decks)), Head(decks),
                                   OpponentsOf(df, Head(decks)), df),
                    Tail(decks), df)

Machine ==
  [banlist |-> banlist, files |-> files, decksTxt |-> decksTxt,
   decklist |-> decklist, cache |-> cache]

ingest_grouped(m, df) == process_decks(m, Levels0(df), df)

ingest(m, rows) == ingest_grouped(m, GroupMean(rows))

(***************************************************************************)
(* src/tools_3cb.py: ingest                                                *)
(***************************************************************************)
RECURSIVE script_process_decks(_, _, _)

\* Lines 38-48: raise, or to_csv and go on with the decks left.
script_after_update(m1, deck, r, rest, df) ==
  IF r.raised
  THEN [m |-> m1, raised |-> TRUE, deck |-> deck, opp |-> r.opp]
  ELSE script_process_decks([m1 EXCEPT !.files = (deck :> to_csv(r.db)) @@ m1.files],
                            rest, df)

\* Lines 23-35: the file of the deck is read; a deck without a file gets an
\* empty frame and is written to decks.txt, sorted and unique, at once.
script_registered(m, deck) ==
  IF deck \in DOMAIN m.files THEN m
  ELSE [m EXCEPT !.decksTxt = Sorted(Range(Append(m.decksTxt, deck)))]

script_read(m, deck) ==
  IF deck \in DOMAIN m.files THEN read_csv(m.files[deck]) ELSE EmptyFrame

\* The loop over df.index.levels[0] of the script.
script_process_decks(m, decks, df) ==
  IF decks = <<>> THEN [m |-> m, raised |-> FALSE, deck |-> <<>>, opp |-> <<>>]
  ELSE script_after_update(script_registered(m, Head(decks)),
                           Head(decks),
                           update_results(script_read(m, Head(decks)), Head(decks),
                                          OpponentsOf(df, Head(decks)), df),
                           Tail(decks), df)

script_ingest(m, rows) == script_process_decks(m, Levels0(GroupMean(rows)), GroupMean(rows))

(***************************************************************************)
(* Rational numbers <<numerator, denominator>>, in lowest terms             *)
(***************************************************************************)
Abs(n) == IF n < 0 THEN -n ELSE n

Rat(n, d) == LET g == Gcd(Abs(n), d) IN <<n \div g, d \div g>>

RatAdd(a, b) == Rat(a[1] * b[2] + b[1] * a[2], a[2] * b[2])

RatLess(a, b) == a[1] * b[2] < b[1] * a[2]

RECURSIVE SumSeq(_)
SumSeq(s) == IF s = <<>> THEN 0 ELSE Head(s) + SumSeq(Tail(s))

\* None, NaN.
None == <<>>

(***************************************************************************)
(* Tools3CB.remove_banlist / get_deck_global_score                         *)
(***************************************************************************)
\* deck.split(' | ')
Split(deck) == deck

\* any(card in self.banlist for card in cards)
HasBannedCard(bl, deck) == \E i \in 1..Len(Split(deck)) : Split(deck)[i] \in Range(bl)

\* remove_banlist(deck_db): the rows whose index holds no banned card.
remove_banlist(bl, deck_db) ==
  read_csv(SelectSeq(to_csv(deck_db), LAMBDA row : ~HasBannedCard(bl, row[1])))

\* self.cache after load_deck of every deck of the set S.
cache_after_loads(m, S) == [deck \in DOMAIN m.cache \cup S |-> load_deck(m, deck)]

\* get_deck_global_score(deck, use_banlist): deck_db["Result"].sum()
get_deck_global_score(m, deck, use_banlist) ==
  SumSeq((IF use_banlist THEN remove_banlist(m.banlist, load_deck(m, deck))
          ELSE load_deck(m, deck)).Result)

(***************************************************************************)
(* Tools3CB.get_guesses / guess_result                                     *)
(***************************************************************************)
\* opp_cards.remove(card): the list without the first occurrence of card.
RemoveFirst(cards, card) ==
  LET i == CHOOSE k \in 1..Len(cards) :
             cards[k] = card /\ \A j \in 1..(k - 1) : cards[j] # card
  IN SubSeq(cards, 1, i - 1) \o SubSeq(cards, i + 1, Len(cards))

\* The loop "for card in opponent_cards" of get_guesses.
RECURSIVE similarity(_, _)
similarity(opponent_cards, opp_cards) ==
  IF opponent_cards = <<>> THEN 0
  ELSE IF Head(opponent_cards) \in Range(opp_cards)
       THEN 1 + similarity(Tail(opponent_cards), RemoveFirst(opp_cards, Head(opponent_cards)))
       ELSE similarity(Tail(opponent_cards), opp_cards)

\* A threshold that lets one shared card count.
SimilarEnoughAtOne(n) == n > 0

\* similarity>1
SimilarEnough(n) == n > 1

\* The loop "for opp in deck_db.index" of get_guesses, from row i on.
RECURSIVE guesses_from(_, _, _)
guesses_from(deck_db, opponent_cards, i) ==
  IF i > Len(deck_db.index) THEN <<>>
  ELSE (IF SimilarEnough(similarity(opponent_cards, Split(deck_db.index[i])))
        THEN <<Loc(deck_db, deck_db.index[i])>> ELSE <<>>)
       \o guesses_from(deck_db, opponent_cards, i + 1)

get_guesses(m, deck, opponent) == guesses_from(load_deck(m, deck), Split(opponent), 1)

Negated(s) == [i \in 1..Len(s) |-> -s[i]]

\* sum(guesses) / len(guesses), None for no guess.
average(guesses) ==
  IF guesses = <<>> THEN None ELSE Rat(SumSeq(guesses), Len(guesses))

guess_result(m, deck, opponent) ==
  average(get_guesses(m, deck, opponent) \o Negated(get_guesses(m, opponent, deck)))

(***************************************************************************)
(* src/tools_3cb.py: get_guesses / guess_result                            *)
(***************************************************************************)
\* for _ in range(similarity): guesses.append(guess)
RECURSIVE Repeated(_, _)
Repeated(guess, n) == IF n = 0 THEN <<>> ELSE <<guess>> \o Repeated(guess, n - 1)

\* The loop "for opp in deck_db.index" of the script's get_guesses.
RECURSIVE script_guesses_from(_, _, _)
script_guesses_from(deck_db, opponent_cards, i) ==
  IF i > Len(deck_db.index) THEN <<>>
  ELSE Repeated(Loc(deck_db, deck_db.index[i]),
                similarity(opponent_cards, Split(deck_db.index[i])))
       \o script_guesses_from(deck_db, opponent_cards, i + 1)

\* get_guesses(deck, opponent) of the script, for a deck that has a file.
script_get_guesses(m, deck, opponent) ==
  script_guesses_from(read_csv(m.files[deck]), Split(opponent), 1)

\* sum(guesses) / len(guesses), 0 for no guess.
script_average(guesses) ==
  IF guesses = <<>> THEN <<0, 1>> ELSE Rat(SumSeq(guesses), Len(guesses))

script_guess_result(m, deck, opponent) ==
  script_average(script_get_guesses(m, deck, opponent)
                 \o Negated(script_get_guesses(m, opponent, deck)))

(***************************************************************************)
(* Tools3CB.get_suggestions / fill_guesses                                 *)
(***************************************************************************)
\* A frame that is not negated.
as_loaded(deck_db) == deck_db

\* -self.load_deck(deck)
negated_frame(deck_db) == [deck_db EXCEPT !.Result = Negated(deck_db.Result)]

\* The column get_suggestions adds for a gauntlet deck: the negated record
\* without the banned rows, an empty column for a deck not in self.decklist.
gauntlet_column(m, deck) ==
  IF deck \notin Range(m.decklist) THEN EmptyFrame
  ELSE remove_banlist(m.banlist, negated_frame(load_deck(m, deck)))

\* The index after pd.concat([table, deck_db], axis=1): the rows of the
\* table, then the rows of deck_db the table did not have.
concat_index(index, deck_db) ==
  index \o SelectSeq(deck_db.index, LAMBDA d : d \notin Range(index))

\* The loop "for deck in gauntlet": the table as its index and, per gauntlet
\* deck, its column.
RECURSIVE build_table(_, _, _)
build_table(m, gauntlet, table) ==
  IF gauntlet = <<>> THEN table
  ELSE build_table(m, Tail(gauntlet),
         [index   |-> concat_index(table.index, gauntlet_column(m, Head(gauntlet))),
          columns |-> Append(table.columns,
                             [name |-> Head(gauntlet),
                              data |-> gauntlet_column(m, Head(gauntlet))])])

\* table.loc[deck, opponent] for column k: the scaled result, None for NaN.
cell(table, deck, k) ==
  IF InIndex(table.columns[k].data, deck)
  THEN <<Loc(table.columns[k].data, deck), 1>> ELSE None

\* fill_guesses: the NaN cells are given guess_result(deck, opponent).
filled_cell(m, table, deck, k) ==
  IF cell(table, deck, k) = None
  THEN guess_result(m, deck, table.columns[k].name)
  ELSE cell(table, deck, k)

\* .sum(axis=1) of one row: the sum of its cells that are not NaN.
RECURSIVE row_sum(_)
row_sum(cells) ==
  IF cells = <<>> THEN <<0, 1>>
  ELSE IF Head(cells) = None THEN row_sum(Tail(cells))
  ELSE RatAdd(Head(cells), row_sum(Tail(cells)))

known_score(table, deck) ==
  row_sum([k \in 1..Len(table.columns) |-> cell(table, deck, k)])

estimated_score(m, table, deck) ==
  row_sum([k \in 1..Len(table.columns) |-> filled_cell(m, table, deck, k)])

\* result[result["Known score"] > threshold]
above(table, index, threshold) ==
  IF threshold = None THEN index
  ELSE SelectSeq(index, LAMBDA d : RatLess(<<threshold[1] * Scale, 1>>, known_score(table, d)))

\* The sort keys of a row: Known score, Estimated score if computed, Global score.
sort_key(m, table, deck, estimate) ==
  <<known_score(table, deck)>>
  \o (IF estimate THEN <<estimated_score(m, table, deck)>> ELSE <<>>)
  \o <<<<get_deck_global_score(m, deck, TRUE), 1>>>>

RECURSIVE KeyLess(_, _)
KeyLess(a, b) ==
  /\ a # <<>>
  /\ \/ RatLess(Head(a), Head(b))
     \/ Head(a) = Head(b) /\ KeyLess(Tail(a), Tail(b))

\* One step of the stable descending sort: d goes after every row whose key
\* is not less than its own.
RECURSIVE insert_row(_, _, _)
insert_row(sorted, d, key) ==
  IF sorted = <<>> THEN <<d>>
  ELSE IF KeyLess(key[Head(sorted)], key[d]) THEN <<d>> \o sorted
  ELSE <<Head(sorted)>> \o insert_row(Tail(sorted), d, key)

\* sort_values(by=sort_columns, ascending=False, kind="stable")
RECURSIVE sort_rows(_, _, _)
sort_rows(index, sorted, key) ==
  IF index = <<>> THEN sorted
  ELSE sort_rows(Tail(index), insert_row(sorted, Head(index), key), key)

suggestions_of(m, table, threshold, estimate) ==
  [index     |-> sort_rows(above(table, table.index, threshold), <<>>,
                           [d \in Range(table.index) |->
                              sort_key(m, table, d, estimate)]),
   columns   |-> [k \in 1..Len(table.columns) |-> table.columns[k].name],
   Known     |-> [d \in Range(above(table, table.index, threshold)) |->
                    known_score(table, d)],
   Estimated |-> [d \in Range(above(table, table.index, threshold)) |->
                    IF estimate THEN estimated_score(m, table, d) ELSE None],
   Global    |-> [d \in Range(above(table, table.index, threshold)) |->
                    get_deck_global_score(m, d, TRUE)]]

\* The table get_suggestions(gauntlet, threshold, estimate) returns.
get_suggestions(m, gauntlet, threshold, estimate) ==
  suggestions_of(m, build_table(m, gauntlet, [index |-> <<>>, columns |-> <<>>]),
                 threshold, estimate)

\* The decks get_suggestions loads: the gauntlet decks of self.decklist, for
\* each NaN cell its row and its column, and the rows of the result.
loaded_by_suggestions(m, table, gauntlet, threshold, estimate) ==
  (Range(gauntlet) \cap Range(m.decklist))
  \cup (IF estimate
        THEN UNION {{d, table.columns[k].name} : <<d, k>> \in
                      {c \in Range(table.index) \X (1..Len(table.columns)) :
                         cell(table, c[1], c[2]) = None}}
        ELSE {})
  \cup Range(above(table, table.index, threshold))

(***************************************************************************)
(* Inputs                                                                  *)
(***************************************************************************)
LedgerPairs == {<<DeckX, DeckY>>, <<DeckX, DeckZ>>, <<DeckY, DeckX>>}

LedgerRows == {<<p[1], p[2], o>> : p \in LedgerPairs, o \in Outcomes}

\* A fixed order on rows.  groupby().mean() does not depend on the order of
\* the rows, so the batches are drawn with their rows in this order.
OutcomeRank(o) == CASE o = "Win" -> 1 [] o = "Tie" -> 2 [] o = "Loss" -> 3

RowLeq(r, s) ==
  \/ DeckLess(r[1], s[1])
  \/ r[1] = s[1] /\ DeckLess(r[2], s[2])
  \/ r[1] = s[1] /\ r[2] = s[2] /\ OutcomeRank(r[3]) <= OutcomeRank(s[3])

BatchesOver(R, n) ==
  {b \in UNION {[1..k -> R] : k \in 1..n} :
     \A i \in 1..(Len(b) - 1) : RowLeq(b[i], b[i + 1])}

LedgerBatches == BatchesOver(LedgerRows, MaxRows)

BanLists == {<<>>, <<5>>}

QueryDecks == {DeckX, DeckY, DeckZ, DeckW}

QueryPairs == {<<DeckX, DeckZ>>, <<DeckX, DeckW>>, <<DeckY, DeckX>>, <<DeckY, DeckZ>>}

QueryRows == {<<p[1], p[2], o>> : p \in QueryPairs, o \in Outcomes}

QueryBatches == {<<>>} \cup BatchesOver(QueryRows, MaxRows)

\* Every list of distinct decks of S.
RECURSIVE Lists(_)
Lists(S) == {<<>>} \cup UNION {{<<d>> \o l : l \in Lists(S \ {d})} : d \in S}

\* gauntlet.txt: a list of deck identifiers, without duplicates.
Gauntlets == Lists({DeckX, DeckY, DeckZ}) \ {<<>>}

Thresholds == {None, <<0>>}

\* The machine of a new process on the same database.
Restarted(m) == [m EXCEPT !.cache = <<>>, !.decklist = m.decksTxt]

(***************************************************************************)
(* Actions                                                                 *)
(***************************************************************************)
Programs == {"class", "script"}

Init ==
  /\ program \in Programs
  /\ banlist = <<5>>
  /\ files = <<>>
  /\ decksTxt = <<>>
  /\ decklist = <<>>
  /\ cache = <<>>
  /\ last = [op |-> "init"]

Ingest(rows) ==
  /\ program = "class"
  /\ \E r \in {ingest(Machine, rows)} :
       /\ files' = r.m.files
       /\ decksTxt' = r.m.decksTxt
       /\ decklist' = r.m.decklist
       /\ cache' = r.m.cache
       /\ last' = [op |-> "ingest", raised |-> r.raised, deck |-> r.deck, opp |-> r.opp]
  /\ UNCHANGED <<program, banlist>>

Load(deck) ==
  /\ program = "class"
  /\ cache' = cache_after_load(Machine, deck)
  /\ last' = [op |-> "load_deck"]
  /\ UNCHANGED <<program, banlist, files, decksTxt, decklist>>

\* A new process: Tools3CB.__init__.
Restart ==
  /\ program = "class"
  /\ decklist' = decksTxt
  /\ cache' = <<>>
  /\ last' = [op |-> "init"]
  /\ UNCHANGED <<program, banlist, files, decksTxt>>

\* ingest(xlsx_path) of the script: it keeps nothing in memory between calls.
ScriptIngest(rows) ==
  /\ program = "script"
  /\ \E r \in {script_ingest(Machine, rows)} :
       /\ files' = r.m.files
       /\ decksTxt' = r.m.decksTxt
       /\ last' = [op |-> "ingest", raised |-> r.raised, deck |-> r.deck, opp |-> r.opp]
  /\ UNCHANGED <<program, banlist, decklist, cache>>

Next ==
  \/ \E rows \in LedgerBatches : Ingest(rows)
  \/ \E deck \in {DeckX, DeckY} : Load(deck)
  \/ Restart
  \/ \E rows \in LedgerBatches : ScriptIngest(rows)

Spec == Init /\ [][Next]_vars

\* A database with nothing in it.
EmptyMachine(bl) ==
  [banlist |-> bl, files |-> <<>>, decksTxt |-> <<>>, decklist |-> <<>>, cache |-> <<>>]

\* Tools3CB(), or the script, on a database that an earlier run of the same
\* program has ingested one workbook into.
QueryInit ==
  \E rows \in QueryBatches, bl \in BanLists, p \in Programs :
    \E m \in {IF p = "class" THEN Restarted(ingest(EmptyMachine(bl), rows).m)
                ELSE script_ingest(EmptyMachine(bl), rows).m} :
      /\ program = p
      /\ banlist = m.banlist
      /\ files = m.files
      /\ decksTxt = m.decksTxt
      /\ decklist = m.decklist
      /\ cache = m.cache
      /\ last = [op |-> "init"]

GuessResult(deck, opponent) ==
  /\ program = "class"
  /\ cache' = cache_after_loads(Machine, {deck, opponent})
  /\ last' = [op |-> "guess_result"]
  /\ UNCHANGED <<program, banlist, files, decksTxt, decklist>>

GetDeckGlobalScore(deck, use_banlist) ==
  /\ program = "class"
  /\ cache' = cache_after_loads(Machine, {deck})
  /\ last' = [op |-> "get_deck_global_score"]
  /\ UNCHANGED <<program, banlist, files, decksTxt, decklist>>

GetSuggestions(gauntlet, threshold, estimate) ==
  /\ program = "class"
  /\ \E table \in {build_table(Machine, gauntlet, [index |-> <<>>, columns |-> <<>>])} :
       /\ cache' = cache_after_loads(Machine,
                     loaded_by_suggestions(Machine, table, gauntlet, threshold, estimate))
       /\ last' = [op |-> "get_suggestions"]
  /\ UNCHANGED <<program, banlist, files, decksTxt, decklist>>

\* guess_result(deck, opponent) of the script, which reads the files of both.
ScriptGuessResult(deck, opponent) ==
  /\ program = "script"
  /\ deck \in DOMAIN files /\ opponent \in DOMAIN files
  /\ last' = [op |-> "guess_result"]
  /\ UNCHANGED <<program, banlist, files, decksTxt, decklist, cache>>

QueryNext ==
  \/ \E deck \in QueryDecks, opponent \in QueryDecks : ScriptGuessResult(deck, opponent)
  \/ \E deck \in QueryDecks, opponent \in QueryDecks : GuessResult(deck, opponent)
  \/ \E deck \in QueryDecks, use_banlist \in BOOLEAN : GetDeckGlobalScore(deck, use_banlist)
  \/ \E gauntlet \in Gauntlets, threshold \in Thresholds, estimate \in BOOLEAN :
       GetSuggestions(gauntlet, threshold, estimate)

QuerySpec == QueryInit /\ [][QueryNext]_vars

(***************************************************************************)
(* The ledger as persisted                                                 *)
(***************************************************************************)
\* Deck's persisted record in the files f holds a result for opponent.
StoredIn(f, deck, opponent) ==
  deck \in DOMAIN f /\ \E i \in 1..Len(f[deck]) : f[deck][i][1] = opponent

\* The results persisted for (deck, opponent) in f: one value per row.
ValuesIn(f, deck, opponent) ==
  IF deck \in DOMAIN f
  THEN {f[deck][i][2] : i \in {j \in 1..Len(f[deck]) : f[deck][j][1] = opponent}}
  ELSE {}

\* Every result persisted in f is persisted in g, with the same value.
KeptIn(f, g) ==
  \A deck \in DOMAIN f : \A i \in 1..Len(f[deck]) :
    ValuesIn(g, deck, f[deck][i][1]) = {f[deck][i][2]}

\* The mean of the rows of one pair, from its definition: value v with
\* v / Scale = (wins - losses) / rows.
IsMeanOf(v, rows, key) ==
  LET n(o) == Cardinality({i \in 1..Len(rows) : rows[i] = <<key[1], key[2], o>>})
  IN v * (n("Win") + n("Tie") + n("Loss")) = Scale * (n("Win") - n("Loss"))

\* The batch holds two different outcomes for one (deck, opponent) pair.
Mixed(rows) ==
  \E i, j \in 1..Len(rows) :
    rows[i][1] = rows[j][1] /\ rows[i][2] = rows[j][2] /\ rows[i][3] # rows[j][3]

(***************************************************************************)
(* C1  No silent overwrite                                                 *)
(***************************************************************************)
C1_Case(rows, r) ==
  /\ (\E key \in {<<w[1], w[2]>> : w \in Range(rows)} :
        /\ StoredIn(files, key[1], key[2])
        /\ \E v \in ValuesIn(files, key[1], key[2]) : ~IsMeanOf(v, rows, key))
     => r.raised
  /\ KeptIn(files, r.m.files)
  /\ ~r.raised =>
       \A key \in {<<w[1], w[2]>> : w \in Range(rows)} :
         /\ Cardinality(ValuesIn(r.m.files, key[1], key[2])) = 1
         /\ \A v \in ValuesIn(r.m.files, key[1], key[2]) : IsMeanOf(v, rows, key)
         /\ StoredIn(files, key[1], key[2]) =>
              ValuesIn(r.m.files, key[1], key[2]) = ValuesIn(files, key[1], key[2])

\* The ingest of the program that owns the database.
ingest_of(p, m, rows) == IF p = "class" THEN ingest(m, rows) ELSE script_ingest(m, rows)

IngestRaised == program = "class" /\ last'.op = "ingest" /\ last'.raised

\* C2 as claimed: whenever an ingest call ends with a conflict error, every
\* persisted record and the registry are what they were before the call.
C2_FailedIngestChangesNothing ==
  [][IngestRaised => (files' = files /\ decksTxt' = decksTxt)]_vars

\* deck is the deck the conflict was raised on, or sorts after it.
NotBefore(deck, conflict) == deck = conflict \/ DeckLess(conflict, deck)

\* The persisted record of deck, and whether the registry lists it, are the
\* same in f, t as in g, u.
SameFor(deck, f, t, g, u) ==
  /\ (deck \in DOMAIN f) = (deck \in DOMAIN g)
  /\ deck \in DOMAIN f => f[deck] = g[deck]
  /\ (deck \in Range(t)) = (deck \in Range(u))

\* C2 amended: when an ingest call ends with a conflict error raised on deck
\* D, the persisted record and the registry membership of D and of every deck
\* that sorts after D are what they were before the call; only decks of the
\* batch that sort before D have been saved and registered.
C2_FailedIngestKeepsConflictingDeck ==
  [][IngestRaised =>
       \A deck \in DOMAIN files \cup DOMAIN files' \cup Range(decksTxt')
                   \cup {DeckX, DeckY, DeckZ} :
         NotBefore(deck, last'.deck) => SameFor(deck, files, decksTxt, files', decksTxt')]_vars

\* An ingest raised on the second deck of the registry, whose record holds
\* one result, while the first deck has a persisted record.
C2_Witness ==
  /\ program = "class"
  /\ last.op = "ingest" /\ last.raised
  /\ last.deck = DeckY
  /\ DeckX \in DOMAIN files /\ DeckY \in DOMAIN files
  /\ Len(files[DeckX]) = 2

(***************************************************************************)
(* C3  Ingest is idempotent                                                *)
(***************************************************************************)
SameLedger(m, n) ==
  /\ m.files = n.files
  /\ m.decksTxt = n.decksTxt
  /\ m.decklist = n.decklist
  /\ m.cache = n.cache

NoDuplicates(m) ==
  /\ \A deck \in DOMAIN m.files : \A i, j \in 1..Len(m.files[deck]) :
       m.files[deck][i][1] = m.files[deck][j][1] => i = j
  /\ \A i, j \in 1..Len(m.decksTxt) : m.decksTxt[i] = m.decksTxt[j] => i = j

\* The second ingestion r2 of the batch after a first one, r1, that returned.
C3_Again(r1, r2) ==
  /\ ~r2.raised
  /\ r2.m.files = r1.m.files
  /\ r2.m.decksTxt = r1.m.decksTxt
  /\ NoDuplicates(r2.m)

C3_Case(rows, r1) ==
  ~r1.raised =>
    /\ C3_Again(r1, ingest(r1.m, rows))
    /\ SameLedger(ingest(r1.m, rows).m, r1.m)
    /\ C3_Again(r1, ingest(Restarted(r1.m), rows))

\* C3: in every state and for every batch whose ingestion returns, ingesting
\* the batch again, in the same process or in a new one, returns too and
\* leaves every persisted record and the registry as the first ingestion left
\* them, without a duplicated opponent or registry entry.
C3_Idempotent ==
  program = "class" =>
    \A rows \in LedgerBatches : C3_Case(rows, ingest(Machine, rows))

\* An ingest has returned, and a batch of two decks is persisted as it stands.
C3_Witness ==
  /\ program = "class"
  /\ last.op = "ingest" /\ ~last.raised
  /\ \E rows \in LedgerBatches :
       /\ Len(rows) = 2 /\ rows[1][1] # rows[2][1]
       /\ \A i \in 1..Len(rows) :
            \E v \in ValuesIn(files, rows[i][1], rows[i][2]) :
              IsMeanOf(v, rows, <<rows[i][1], rows[i][2]>>)
       /\ ~ingest(Machine, rows).raised

(***************************************************************************)
(* C4  Symmetry of the two stored directions                               *)
(***************************************************************************)
\* C4 as claimed: when A's record holds r for B and B's record holds s for
\* A, then s = -r.
C4_SymmetryEnforced ==
  program = "class" =>
    \A a \in DOMAIN files, b \in DOMAIN files :
      \A r \in ValuesIn(files, a, b), s \in ValuesIn(files, b, a) : s = -r

(***************************************************************************)
(* C7  The registry                                                        *)
(***************************************************************************)
StrictlySorted(lst) == \A i \in 1..(Len(lst) - 1) : DeckLess(lst[i], lst[i + 1])

RegistryOK ==
  /\ StrictlySorted(decksTxt)
  /\ Range(decksTxt) = DOMAIN files
  /\ program = "class" => decklist = decksTxt

\* C7: with either program, the registry is sorted, without duplicates, lists exactly the decks
\* that have a persisted record, and no step removes a deck from it.
C7_Registry ==
  /\ []RegistryOK
  /\ [][Range(decksTxt) \subseteq Range(decksTxt')]_vars

\* Two decks are registered, the later one after a failed ingest of the other.
C7_Witness ==
  /\ program = "script"
  /\ decksTxt = <<DeckX, DeckY>>
  /\ last.op = "ingest" /\ last.raised /\ last.deck = DeckX

(***************************************************************************)
(* C8  Two outcomes for one pair in a batch                                *)
(***************************************************************************)
\* C8 as claimed: a batch that holds two different outcomes for one (deck,
\* opponent) pair raises a conflict.
C8_MixedBatchRaises ==
  program = "class" =>
    \A rows \in LedgerBatches : Mixed(rows) => ingest(Machine, rows).raised

\* The record load_deck returns holds, for a pair of the batch, a result that
\* is not the mean of the pair's rows.
ConflictsWithLoaded(rows) ==
  \E key \in {<<w[1], w[2]>> : w \in Range(rows)} :
    /\ InIndex(load_deck(Machine, key[1]), key[2])
    /\ ~IsMeanOf(Loc(load_deck(Machine, key[1]), key[2]), rows, key)

C8_Case(rows, r) ==
  /\ r.raised = ConflictsWithLoaded(rows)
  /\ r.raised =>
       /\ SameFor(r.deck, files, decksTxt, r.m.files, r.m.decksTxt)
       /\ InIndex(load_deck(Machine, r.deck), r.opp)
       /\ ~IsMeanOf(Loc(load_deck(Machine, r.deck), r.opp), rows, <<r.deck, r.opp>>)
  /\ (Mixed(rows) /\ ~r.raised) =>
       \A key \in {<<w[1], w[2]>> : w \in Range(rows)} :
         \A v \in ValuesIn(r.m.files, key[1], key[2]) : IsMeanOf(v, rows, key)

\* C8 amended: the outcomes a batch holds for one (deck, opponent) pair are
\* averaged, and two different ones raise nothing by themselves.  An ingest
\* raises a conflict exactly when the mean of some pair differs from the
\* result the deck's loaded record already holds for it, and it raises before
\* that deck's record is persisted; otherwise the means are what is persisted.
C8_MixedBatchIsAveraged ==
  program = "class" =>
    \A rows \in LedgerBatches : C8_Case(rows, ingest(Machine, rows))

\* A result that only a batch of two different outcomes yields is persisted.
C8_Witness ==
  /\ program = "class"
  /\ last.op = "ingest" /\ ~last.raised
  /\ \E v \in ValuesIn(files, DeckX, DeckY) : v \notin {Scale, 0, -Scale}

(***************************************************************************)
(* C10  The cache and the persisted records                                *)
(***************************************************************************)
\* C10 as claimed: the memoized record of each cached deck is the deck's
\* persisted record, the empty record if none is persisted.
C10_CacheCoherent ==
  \A deck \in DOMAIN cache :
    to_csv(cache[deck]) = (IF deck \in DOMAIN files THEN files[deck] ELSE <<>>)

(***************************************************************************)
(* C5  The Known score                                                     *)
(***************************************************************************)
RECURSIVE SumSet(_, _)
SumSet(S, f) ==
  IF S = {} THEN 0
  ELSE LET x == CHOOSE y \in S : TRUE IN f[x] + SumSet(S \ {x}, f)

TheValue(S) == CHOOSE v \in S : TRUE

Banned(deck) == Range(deck) \cap Range(banlist) # {}

\* The opponents of the gauntlet that the claim counts for deck, and what
\* each counts for: deck's own persisted result, else the negation of the
\* opponent's persisted result against deck.
ClaimedOpponents(deck, gauntlet) ==
  {g \in Range(gauntlet) : ValuesIn(files, deck, g) # {} \/ ValuesIn(files, g, deck) # {}}

ClaimedTerm(deck, g) ==
  IF ValuesIn(files, deck, g) # {} THEN TheValue(ValuesIn(files, deck, g))
  ELSE -TheValue(ValuesIn(files, g, deck))

\* C5 as claimed, for decks and gauntlets without a banned card: the Known
\* score of a deck with a known result against the gauntlet is the sum, over
\* the opponents of the gauntlet, of the deck's own stored result if its
\* record has it, else of the negated stored result of the opponent.
C5_KnownScoreOwnRecordFirst ==
  \A gauntlet \in Gauntlets, deck \in QueryDecks :
    (/\ program = "class"
     /\ ClaimedOpponents(deck, gauntlet) # {}
     /\ ~Banned(deck)
     /\ \A g \in Range(gauntlet) : ~Banned(g))
    => /\ deck \in DOMAIN get_suggestions(Machine, gauntlet, None, FALSE).Known
       /\ get_suggestions(Machine, gauntlet, None, FALSE).Known[deck] =
            <<SumSet(ClaimedOpponents(deck, gauntlet),
                     [g \in ClaimedOpponents(deck, gauntlet) |-> ClaimedTerm(deck, g)]), 1>>

\* The gauntlet decks of the registry whose record, as load_deck returns it,
\* holds a result against deck.
CountedOpponents(deck, gauntlet) ==
  {g \in Range(gauntlet) \cap Range(decklist) : InIndex(load_deck(Machine, g), deck)}

C5_Case(gauntlet, T) ==
  /\ DOMAIN T.Known =
       {d \in QueryDecks : ~Banned(d) /\ CountedOpponents(d, gauntlet) # {}}
  /\ Range(T.index) = DOMAIN T.Known
  /\ \A d \in DOMAIN T.Known :
       T.Known[d] =
         <<SumSet(CountedOpponents(d, gauntlet),
                  [g \in CountedOpponents(d, gauntlet) |->
                     -Loc(load_deck(Machine, g), d)]), 1>>

\* C5 amended: the suggestion table of a gauntlet of distinct decks has one
\* row for each deck without a banned card that some registered gauntlet deck
\* has a result against in the record load_deck returns, and the Known score
\* of the row is the sum, over those gauntlet decks only, of the negation of
\* that result.  The deck's own record is not read.  The sum runs over the
\* set of gauntlet decks, so it does not depend on their order.
C5_KnownScoreFromGauntletRecords ==
  program = "class" =>
    \A gauntlet \in Gauntlets :
      C5_Case(gauntlet, get_suggestions(Machine, gauntlet, None, FALSE))

\* get_suggestions has run where a row has a known result against two
\* gauntlet decks, whose Known score is their sum and is not zero.
C5_Witness ==
  /\ last.op = "get_suggestions"
  /\ banlist = <<>>
  /\ CountedOpponents(DeckZ, <<DeckX, DeckY>>) = {DeckX, DeckY}
  /\ get_suggestions(Machine, <<DeckY, DeckX>>, None, FALSE).Known[DeckZ][1] > Scale

(***************************************************************************)
(* C6  The similarity estimate                                             *)
(***************************************************************************)
Count(cards, c) == Cardinality({i \in 1..Len(cards) : cards[i] = c})

Min(a, b) == IF a < b THEN a ELSE b

\* The number of cards two decks share.
SharedCards(a, b) ==
  SumSet(Range(a), [c \in Range(a) |-> Min(Count(a, c), Count(b, c))])

\* The rows of the record deck_db against an archetype that shares more than
\* one card with other.
Evidence(deck_db, other) ==
  {i \in 1..Len(deck_db.index) : SharedCards(deck_db.index[i], other) > 1}

EvidenceSum(deck_db, other) ==
  SumSet(Evidence(deck_db, other), [i \in Evidence(deck_db, other) |-> deck_db.Result[i]])

\* estimate is what the claim says of the records deck_db of deck and opp_db
\* of opponent.
C6_Case(deck_db, opp_db, deck, opponent, estimate) ==
  LET n == Cardinality(Evidence(deck_db, opponent)) + Cardinality(Evidence(opp_db, deck))
  IN IF n = 0 THEN estimate = None
     ELSE /\ estimate # None
          /\ estimate[1] * n =
               (EvidenceSum(deck_db, opponent) - EvidenceSum(opp_db, deck)) * estimate[2]

\* Tools3CB.guess_result(deck, opponent) is the average of deck's results
\* against every recorded archetype that shares more than one card with
\* opponent and of the negated results of opponent against every recorded
\* archetype that shares more than one card with deck, each counted once; it
\* is None when there is no such result.
Tools3CB_Estimate ==
  program = "class" =>
    \A deck \in QueryDecks, opponent \in QueryDecks :
      C6_Case(load_deck(Machine, deck), load_deck(Machine, opponent), deck, opponent,
              guess_result(Machine, deck, opponent))

\* The same of guess_result(deck, opponent) of the script, for two decks that
\* have a file.
Script_Estimate ==
  program = "script" =>
    \A deck \in DOMAIN files, opponent \in DOMAIN files :
      C6_Case(read_csv(files[deck]), read_csv(files[opponent]), deck, opponent,
              script_guess_result(Machine, deck, opponent))

\* C6 as claimed: the estimate of either program is that average, with each
\* qualifying result counted once, nothing counted for an archetype that
\* shares one card or none, and no estimate when nothing qualifies.
C6_Estimate == Tools3CB_Estimate /\ Script_Estimate

(***************************************************************************)
(* C9  Reads through the banlist filter                                    *)
(***************************************************************************)
\* The machine without the persisted and memoized results against an
\* archetype that holds a banned card.
Unbanned(rows) == SelectSeq(rows, LAMBDA row : ~Banned(row[1]))

Purged(m) ==
  [m EXCEPT !.files = [d \in DOMAIN m.files |-> Unbanned(m.files[d])],
            !.cache = [d \in DOMAIN m.cache |-> read_csv(Unbanned(to_csv(m.cache[d])))]]

\* C9 as claimed: no result against an archetype that holds a banned card
\* contributes to a Known score, to a Global score with the banlist applied
\* or to an estimate, and no deck that holds a banned card is a row of the
\* suggestion table: every one of them is what it would be without those
\* results.
C9_BannedResultsNeverRead ==
  program = "class" =>
  /\ \A deck \in QueryDecks :
       get_deck_global_score(Machine, deck, TRUE) =
         get_deck_global_score(Purged(Machine), deck, TRUE)
  /\ \A gauntlet \in Gauntlets :
       /\ get_suggestions(Machine, gauntlet, None, FALSE) =
            get_suggestions(Purged(Machine), gauntlet, None, FALSE)
       /\ \A d \in Range(get_suggestions(Machine, gauntlet, None, TRUE).index) : ~Banned(d)
  /\ \A deck \in QueryDecks, opponent \in QueryDecks :
       guess_result(Machine, deck, opponent) =
         guess_result(Purged(Machine), deck, opponent)
====
